---------------------------- MODULE Spec2Model ----------------------------
(***************************************************************************)
(* Model of the social-media crawler browser extension: the crawl loop of  *)
(* BaseCrawler (start / stop / bootstrap / crawl cycle / savePost), the    *)
(* per-platform extraction guards, the post-id computation and the         *)
(* viewport anchor selector.                                               *)
(*                                                                         *)
(* Strings are sequences of UTF-16 code units (naturals), so that the hash *)
(* of createPostId is computed character by character as the code does.    *)
(***************************************************************************)
EXTENDS Integers, Sequences, FiniteSets, TLC

(***************************************************************************)
(* Bounds of the model.                                                    *)
(***************************************************************************)
MaxClock == 1        \* the wall clock takes the values 0..MaxClock steps
MaxStarts == 1       \* startCrawling invocations that pass the guard
MaxQueue == 2        \* IndexedDB requests in flight
MaxTimeouts == 1     \* untracked setTimeout callbacks pending at a time
MaxStrLen == 2       \* length of the text drawn for the id computation
MaxCands == 3        \* candidate post containers handed to the selector
MaxFeed == 1         \* post containers on the feed page
MaxClears == 1       \* clearData invocations the user confirms

(***************************************************************************)
(* Strings.                                                                *)
(***************************************************************************)
Min(a, b) == IF a < b THEN a ELSE b
Max(a, b) == IF a > b THEN a ELSE b
Abs(a) == IF a < 0 THEN -a ELSE a

\* String.prototype.substring(0, n)
Substring0(s, n) == SubSeq(s, 1, Min(n, Len(s)))

\* String.prototype.slice(-n)
SliceLast(s, n) == SubSeq(s, Max(1, Len(s) - n + 1), Len(s))

IsDigit(c) == c >= 48 /\ c <= 57

\* timestamp.replace(/[^0-9]/g, '')
RECURSIVE DigitsOnly(_)
DigitsOnly(s) ==
  IF s = <<>> THEN <<>>
  ELSE IF IsDigit(Head(s)) THEN <<Head(s)>> \o DigitsOnly(Tail(s))
       ELSE DigitsOnly(Tail(s))

\* One digit of Number.prototype.toString(36): 0-9 then a-z.
Base36Digit(d) == IF d < 10 THEN 48 + d ELSE 87 + d

\* Number.prototype.toString(36) of a non-negative integer.
RECURSIVE ToBase36(_)
ToBase36(n) ==
  IF n < 36 THEN <<Base36Digit(n)>>
  ELSE ToBase36(n \div 36) \o <<Base36Digit(n % 36)>>

\* Number.prototype.toString() (decimal) of a non-negative integer.
RECURSIVE ToDecimal(_)
ToDecimal(n) ==
  IF n < 10 THEN <<48 + n>>
  ELSE ToDecimal(n \div 10) \o <<48 + (n % 10)>>

(***************************************************************************)
(* Date.now().  The clock variable counts steps of ClockStepMs since an    *)
(* epoch that is a multiple of 10^6 ms; Date.now() prints as 13 decimal    *)
(* digits, the epoch's seven leading digits followed by the low six.       *)
(***************************************************************************)
RateWindowMs == 15000
RateResetMs == 30000
ClockStepMs == RateWindowMs

DateNowMs(clock) == clock * ClockStepMs

RECURSIVE PadLeft(_, _)
PadLeft(s, n) == IF Len(s) >= n THEN s ELSE PadLeft(<<48>> \o s, n)

EpochPrefix == <<49, 55, 54, 50, 49, 57, 48>>

\* Date.now().toString()
DateNowString(clock) == EpochPrefix \o PadLeft(ToDecimal(DateNowMs(clock) % 1000000), 6)

(***************************************************************************)
(* The 32-bit string hash shared by createPostId, createFacebookPostId and *)
(* createTikTokPostId.  A 32-bit pattern is kept as <<high, low>> 16-bit   *)
(* halves so that no intermediate value leaves the checker's integers.     *)
(***************************************************************************)
Half == 65536

\* hash << 5
Shl5(h) ==
  LET lo == 32 * h[2]
      hi == 32 * h[1] + (lo \div Half)
  IN <<hi % Half, lo % Half>>

\* ((hash << 5) - hash) + char; hash = hash & hash
HashStep(h, c) ==
  LET s == Shl5(h)
      lo == s[2] - h[2] + c
      hi == s[1] - h[1] + (lo \div Half)
  IN <<hi % Half, lo % Half>>

\* The values of hash after "hash = hash & hash": the 32-bit patterns
Int32 == (0..(Half - 1)) \X (0..(Half - 1))

\* One iteration per character; each iteration's hash is computed before the
\* next one starts, as in the loop.
RECURSIVE HashFrom(_, _)
HashFrom(h, s) ==
  IF s = <<>> THEN h
  ELSE LET next == HashStep(h, Head(s)) IN
       CASE next \in Int32 -> HashFrom(next, Tail(s))

\* let hash = 0; for (...) { ... }
StringHash(s) == HashFrom(<<0, 0>>, s)

\* Math.abs(hash).toString(36); Math.abs(-2^31) is 2^31, "zik0zk".
AbsHashBase36(h) ==
  IF h = <<32768, 0>> THEN <<122, 105, 107, 48, 122, 107>>
  ELSE IF h[1] >= 32768 THEN ToBase36(-((h[1] - Half) * Half + h[2]))
       ELSE ToBase36(h[1] * Half + h[2])

(***************************************************************************)
(* BaseCrawler.createPostId(text, author, timestamp), with the clock the   *)
(* call reads made an explicit argument.                                   *)
(***************************************************************************)
createPostId(text, author, timestamp, clock) ==
  LET textPortion == Substring0(text, 100)
      content == author \o <<45>> \o textPortion \o <<45>> \o timestamp
      baseHash == AbsHashBase36(StringHash(content))
      timestampSuffix ==
        IF timestamp # <<>> THEN SliceLast(DigitsOnly(timestamp), 6)
        ELSE SliceLast(DateNowString(clock), 6)
  IN Substring0(baseHash \o <<95>> \o timestampSuffix, 20)


(***************************************************************************)
(* FacebookCrawler.createFacebookPostId: the cleaned text alone when there *)
(* is one, else author and timestamp (the element has no reel link and no  *)
(* data-pagelet attribute), joined by '|' and hashed.  The texts of the    *)
(* model hold no white space and none of the UI suffixes the cleaning      *)
(* strips, so the cleaned text is the text.                                *)
(***************************************************************************)
JoinPipe(parts) ==
  IF Len(parts) = 0 THEN <<>>
  ELSE IF Len(parts) = 1 THEN parts[1]
       ELSE parts[1] \o <<124>> \o parts[2]

createFacebookPostId(text, author, timestamp) ==
  LET contentForId == text
      backup == (IF author # <<>> THEN <<author>> ELSE <<>>)
                  \o (IF timestamp # <<>> THEN <<timestamp>> ELSE <<>>)
      identifiers == IF contentForId # <<>> THEN <<contentForId>> ELSE backup
      content == JoinPipe(identifiers)
  IN <<102, 98, 95>> \o AbsHashBase36(StringHash(content))

(***************************************************************************)
(* TikTokCrawler.createTikTokPostId: the video id of the URL when the path *)
(* has one, else a hash of transcript or description, else of the URL and  *)
(* Date.now(); the author is appended to the hashed content.               *)
(***************************************************************************)
TikTokPrefix == <<116, 105, 107, 116, 111, 107, 95>>

createTikTokPostId(videoId, href, description, transcript, author, clock) ==
  IF videoId # <<>> THEN TikTokPrefix \o videoId
  ELSE
    LET base == IF Len(transcript) > 10 THEN transcript
                ELSE IF Len(description) > 0 THEN description
                ELSE href \o <<124>> \o DateNowString(clock)
        contentForId == IF author # <<>> THEN base \o <<124>> \o author ELSE base
    IN TikTokPrefix \o AbsHashBase36(StringHash(contentForId))

(***************************************************************************)
(* The posts a page can show, as the raw fields the adapters extract from  *)
(* a container: a post with text, author and timestamp; a media-only post  *)
(* (no text); a container with neither text nor author; a post whose       *)
(* timestamp element is missing.  videoId is the /video/<digits> part of   *)
(* the TikTok URL showing the post ("" when the path has none).            *)
(***************************************************************************)
Posts ==
  << [text |-> <<104, 105>>, author |-> <<97, 108>>, timestamp |-> <<49, 50, 58, 48, 53>>,
      videoId |-> <<55>>],
     [text |-> <<>>, author |-> <<97, 108>>, timestamp |-> <<49, 50, 58, 48, 53>>,
      videoId |-> <<56>>],
     [text |-> <<>>, author |-> <<>>, timestamp |-> <<>>, videoId |-> <<>>],
     [text |-> <<104, 105>>, author |-> <<97, 108>>, timestamp |-> <<>>,
      videoId |-> <<>>] >>

PostIx == 1..Len(Posts)
NoAnchor == 0

FeedPlatforms == {"twitter", "linkedin", "facebook", "reddit"}
Platforms == FeedPlatforms \cup {"tiktok"}

\* window.location.href of the page that shows post i
Href(i) == <<47>> \o Posts[i].videoId \o <<47, 48 + i>>

\* The id each adapter's extractPostData computes for post i at a clock value.
\* Twitter passes authorHandle || authorName, Reddit title + text.
ComputeId(pl, i, clock) ==
  LET p == Posts[i] IN
  CASE pl = "facebook" -> createFacebookPostId(p.text, p.author, p.timestamp)
    [] pl = "tiktok" ->
         createTikTokPostId(p.videoId, Href(i), p.text, <<>>, p.author, clock)
    [] OTHER -> createPostId(p.text, p.author, p.timestamp, clock)

\* ComputeId tabulated for one adapter (@@ makes the table an explicit function)
IdTableUpTo(pl, maxClock) ==
  [k \in PostIx \X (0..maxClock) |-> ComputeId(pl, k[1], k[2])] @@ <<>>

IdTable(pl) == IdTableUpTo(pl, MaxClock)

(***************************************************************************)
(* Records.  NoRec stands for null / undefined.                            *)
(***************************************************************************)
NoRec ==
  [id |-> <<>>, platform |-> "", text |-> <<>>, author |-> <<>>, post |-> NoAnchor,
   crawledAt |-> -1]


(***************************************************************************)
(* State.                                                                  *)
(***************************************************************************)
VARIABLES
  platform,            \* this.platform
  postsDB,             \* window.postsDB is defined (db.js was loaded)
  feed,                \* the post containers of the feed page; TikTok: the videos still to play
  postIds,             \* the ids this adapter computes: IdTable(platform)
  url,                 \* TikTok: the video page window.location shows
  isRunning,           \* this.isRunning
  crawledPosts,        \* this.crawledPosts (seenIds)
  observer,            \* this.observer: handle of a MutationObserver, 0 for null
  scrollListener,      \* this.scrollListener: handle, 0 for null
  scrollInterval,      \* this.scrollInterval: handle, 0 for null
  scrollTimeout,       \* the debounced timeout of this.scrollTimeout is pending
  lastProcessedPosts,  \* this.lastProcessedPosts: position -> {timestamp, count}
  noNewContentCount,   \* this.noNewContentCount
  currentVideoUrl,     \* TikTok: this.currentVideoUrl, -1 for ''
  clock,               \* Date.now(), in steps of ClockStepMs
  store,               \* the records of the IndexedDB object store, keyed by id
  dbQueue,             \* IndexedDB requests in flight, in transaction order
  liveObservers,       \* MutationObservers that are observing
  liveListeners,       \* scroll listeners registered on window
  liveIntervals,       \* intervals set and not cleared
  timers,              \* pending setTimeout callbacks nobody holds a handle of
  starts,              \* startCrawling invocations that passed the guard
  clears,              \* clearData invocations the user confirmed
  lastEvent,           \* history: the handler that ran last and what its cycle did
  addPostCalls,        \* history: addPost calls per id, issued and rejected
  bootstrapped,        \* history: a loadExistingPostIds read has succeeded
  idArgs, idCalls,     \* the id computation: its arguments, the ids returned
  cands, topPost,      \* the anchor selector: its candidates, its result
  scrollY,             \* window.scrollY, in px
  scrollHeight,        \* document.documentElement.scrollHeight, in px
  scrolledTo,          \* the tops passed to window.scrollTo by the last autoScroll
  exportPosts,         \* the export: the records getAllPosts resolves with
  exported,            \* the export: what exportData('csv') returned
  passedAt,            \* history: position and time of each cycle that got past the rate limit
  lastScrollHeight,    \* this.lastScrollHeight
  stagnantScrolls      \* history: the scrolls issued since the document height last grew

pageVars == <<platform, postsDB, feed, postIds>>
fieldVars == <<isRunning, crawledPosts, observer, scrollListener, scrollInterval,
               scrollTimeout, lastProcessedPosts, noNewContentCount, currentVideoUrl>>
envVars == <<url, clock, store, dbQueue, liveObservers, liveListeners, liveIntervals,
             timers, starts, clears>>
histVars == <<lastEvent, addPostCalls, bootstrapped>>
scrollVars == <<scrollY, scrollHeight, scrolledTo>>
exportVars == <<exportPosts, exported>>
tickVars == <<passedAt, lastScrollHeight, stagnantScrolls>>
pureVars == <<idArgs, idCalls, cands, topPost, scrollVars, exportVars, tickVars>>
vars == <<pageVars, fieldVars, envVars, histVars, pureVars>>

\* The id the adapter's extractPostData computes for post i at a clock value
IdOf(i, clk) == postIds[<<i, clk>>]

\* The postData object extractPostData builds (the fields the loop reads).
PostData(pl, i, clk) ==
  [id |-> IdOf(i, clk), platform |-> pl, text |-> Posts[i].text,
   author |-> Posts[i].author, post |-> i, crawledAt |-> clk]

(***************************************************************************)
(* The rate-limit guard of processTopPost.  Only count > 3 is ever tested, *)
(* so the count saturates one above the limit.                             *)
(***************************************************************************)
RateLimitMax == 3
NoEntry == [timestamp |-> -1, count |-> 0]

\* The key `${postPosition.toFixed(0)}px`: each feed post has its own offset;
\* the single TikTok video container is always at the same offset.
PostKey(pl, anchor) == IF pl = "tiktok" THEN 1 ELSE anchor

RateLimitGuard(lpp, key, clk) ==
  LET currentTime == DateNowMs(clk)
      lastProcessed == lpp[key]
  IN IF lastProcessed # NoEntry
     THEN LET timeDiff == currentTime - lastProcessed.timestamp
              count == Min(lastProcessed.count + 1, RateLimitMax + 1)
          IN IF count > RateLimitMax /\ timeDiff < RateWindowMs
             THEN [lpp |-> [lpp EXCEPT ![key].count = count], skip |-> TRUE]
             ELSE IF timeDiff > RateResetMs
                  THEN [lpp |-> [lpp EXCEPT ![key] = [timestamp |-> currentTime, count |-> 1]],
                        skip |-> FALSE]
                  ELSE [lpp |-> [lpp EXCEPT ![key].count = count], skip |-> FALSE]
     ELSE [lpp |-> [lpp EXCEPT ![key] = [timestamp |-> currentTime, count |-> 1]],
           skip |-> FALSE]

(***************************************************************************)
(* The adapters' extraction guards.  Each returns the postData (NoRec for  *)
(* null) and the crawledPosts set it leaves.                               *)
(***************************************************************************)
\* if (!text && !authorName) return null
NoMeaningfulContent(d) == d.text = <<>> /\ d.author = <<>>

\* TwitterCrawler / LinkedInCrawler / FacebookCrawler .extractPostData
extractGuarded(pl, i, cp, clk) ==
  LET d == PostData(pl, i, clk) IN
  IF NoMeaningfulContent(d) THEN [data |-> NoRec, cp |-> cp]
  ELSE IF d.id \in cp THEN [data |-> NoRec, cp |-> cp]
  ELSE [data |-> d, cp |-> cp]

\* RedditCrawler.extractPostData: no content check; marks the id as crawled
extractReddit(pl, i, cp, clk) ==
  LET d == PostData(pl, i, clk) IN
  IF d.id \in cp THEN [data |-> NoRec, cp |-> cp]
  ELSE [data |-> d, cp |-> cp \cup {d.id}]

extractPostData(pl, i, cp, clk) ==
  IF pl = "reddit" THEN extractReddit(pl, i, cp, clk) ELSE extractGuarded(pl, i, cp, clk)

\* TwitterCrawler.extractPostDataForDisplay: no crawled check
extractDisplayTwitter(pl, i, cp, clk) ==
  LET d == PostData(pl, i, clk) IN
  IF NoMeaningfulContent(d) THEN [data |-> NoRec, cp |-> cp] ELSE [data |-> d, cp |-> cp]

\* TikTokCrawler.extractPostDataForDisplay: description or '@author...', no id
extractDisplayTikTok(pl, i, cp, clk) ==
  [data |-> [PostData(pl, i, clk) EXCEPT !.text = IF @ # <<>> THEN @ ELSE <<64>> \o Posts[i].author],
   cp |-> cp]

\* BaseCrawler.extractPostDataForDisplay delegates to extractPostData
extractPostDataForDisplay(pl, i, cp, clk) ==
  CASE pl = "twitter" -> extractDisplayTwitter(pl, i, cp, clk)
    [] pl = "tiktok" -> extractDisplayTikTok(pl, i, cp, clk)
    [] OTHER -> extractPostData(pl, i, cp, clk)

(***************************************************************************)
(* IndexedDB requests.  cont names the coroutine a request resumes.        *)
(***************************************************************************)
NoReq == [kind |-> "none", rec |-> NoRec, cont |-> "none", handle |-> 0]
Req(kind, rec, cont) == [kind |-> kind, rec |-> rec, cont |-> cont, handle |-> 0]

\* savePost up to its first suspension: no gateway, no write
savePostCall(data, hasDb) == IF hasDb THEN Req("add", data, "savePost") ELSE NoReq

\* TikTokCrawler.extractPostData up to its first suspension, for post i:
\* already crawled in memory, or the lookup window.postsDB.getPost(id)
tiktokExtractCall(i, cp, clk, hasDb, caller) ==
  LET d == PostData("tiktok", i, clk) IN
  IF d.id \in cp THEN NoReq
  ELSE IF hasDb THEN Req("get", d, caller)
  ELSE IF caller = "processTikTokVideo" THEN savePostCall(d, hasDb)
  ELSE NoReq

(***************************************************************************)
(* BaseCrawler.processTopPost on the anchor getTopPostInViewport returned. *)
(* The result: the fields it leaves, the request it issued, its return     *)
(* value and what it did.                                                  *)
(***************************************************************************)
\* if (postData.text && !this.crawledPosts.has(postData.id))
IsNewPost(data, cp) == data.text # <<>> /\ data.id \notin cp

Outcome(cp, lpp, req, processed, what, id) ==
  [cp |-> cp, lpp |-> lpp, req |-> req, processed |-> processed, what |-> what, id |-> id]

processTopPost(pl, anchor, cp, lpp, clk, hasDb) ==
  IF anchor = NoAnchor THEN Outcome(cp, lpp, NoReq, FALSE, "noAnchor", <<>>)
  ELSE
    LET rl == RateLimitGuard(lpp, PostKey(pl, anchor), clk) IN
    IF rl.skip THEN Outcome(cp, rl.lpp, NoReq, FALSE, "rateLimited", <<>>)
    ELSE
      LET disp == extractPostDataForDisplay(pl, anchor, cp, clk) IN
      IF pl = "tiktok"
      THEN \* extractPostData is async here: postData is a promise, whose
           \* text and id are undefined; the extraction runs on unawaited
           Outcome(cp, rl.lpp, tiktokExtractCall(anchor, cp, clk, hasDb, "processTopPost"),
                   FALSE, "promise", <<>>)
      ELSE
        LET ext == extractPostData(pl, anchor, disp.cp, clk)
            postData == ext.data
        IN IF postData # NoRec
           THEN IF IsNewPost(postData, ext.cp)
                THEN Outcome(ext.cp, rl.lpp, savePostCall(postData, hasDb), TRUE,
                             "saved", postData.id)
                ELSE IF postData.id \in ext.cp
                     THEN Outcome(ext.cp, rl.lpp, NoReq, FALSE, "already", postData.id)
                     ELSE Outcome(ext.cp, rl.lpp, NoReq, FALSE, "skipped", postData.id)
           ELSE Outcome(ext.cp, rl.lpp, NoReq, FALSE, "null", <<>>)


(***************************************************************************)
(* Helpers of the actions.                                                 *)
(***************************************************************************)
\* scroll names the window.scrollTo call the handler issued, "none" for none
Event(op, what, anchor, id) ==
  [op |-> op, what |-> what, anchor |-> anchor, id |-> id, scroll |-> "none"]

Scrolled(event, scroll) == [event EXCEPT !.scroll = scroll]

\* a handler that ran no crawl cycle and completed no request
NoEvent == Event("-", "-", NoAnchor, <<>>)

Enqueue(q, req) == IF req = NoReq THEN q ELSE Append(q, req)

CountAddPost(calls, req) ==
  IF req.kind # "add" THEN calls
  ELSE IF req.rec.id \in DOMAIN calls THEN [calls EXCEPT ![req.rec.id].issued = @ + 1]
       ELSE (req.rec.id :> [issued |-> 1, rejected |-> 0]) @@ calls

\* The anchors getTopPostInViewport can return on the page as it is.
AnchorChoices ==
  IF platform = "tiktok" THEN {url, NoAnchor} ELSE feed \cup {NoAnchor}

NoTimers == [settle |-> 0, mutation |-> 0, stuck |-> 0, tiktok |-> 0]

PendingTimeouts == timers.settle + timers.mutation + timers.stuck + timers.tiktok

(***************************************************************************)
(* Initial state: the content script has constructed the crawler.          *)
(***************************************************************************)
\* The fields the constructor sets and the environment before any call
InitFields ==
  /\ isRunning = FALSE
  /\ crawledPosts = {}
  /\ observer = 0
  /\ scrollListener = 0
  /\ scrollInterval = 0
  /\ scrollTimeout = FALSE
  /\ lastProcessedPosts = [k \in PostIx |-> NoEntry]
  /\ noNewContentCount = 0
  /\ currentVideoUrl = -1
  /\ clock = 0
  /\ store = {}
  /\ dbQueue = <<>>
  /\ liveObservers = {}
  /\ liveListeners = {}
  /\ liveIntervals = {}
  /\ timers = NoTimers
  /\ starts = 0
  /\ clears = 0
  /\ lastEvent = NoEvent
  /\ addPostCalls = <<>>
  /\ bootstrapped = FALSE

\* The posts a platform's pages are drawn from
PagePosts ==
  [pl \in Platforms |-> CASE pl = "linkedin" -> {1, 2, 3}
                          [] pl = "tiktok" -> {3}
                          [] OTHER -> PostIx]

InitCrawler ==
  /\ postsDB \in BOOLEAN
  /\ \/ /\ platform \in FeedPlatforms
        /\ feed \in {f \in SUBSET PagePosts[platform] :
                       Cardinality(f) >= 1 /\ Cardinality(f) <= MaxFeed}
        /\ url = NoAnchor
     \/ /\ platform = "tiktok"
        /\ url \in PagePosts[platform]
        /\ feed = {(url % Len(Posts)) + 1}
  /\ postIds = IdTable(platform)
  /\ InitFields

\* No scroll requested, no export requested
InitScroll ==
  /\ scrollY = 0
  /\ scrollHeight = 0
  /\ scrolledTo = <<>>

\* exportData has not been called
NotExported == [called |-> FALSE]

InitExport ==
  /\ exportPosts = <<>>
  /\ exported = NotExported

\* No cycle has run, no scroll was issued
InitTicks ==
  /\ passedAt = <<>>
  /\ lastScrollHeight = 0
  /\ stagnantScrolls = <<>>

InitPure ==
  /\ idArgs = <<>>
  /\ idCalls = <<>>
  /\ cands = <<>>
  /\ topPost = -1
  /\ InitScroll
  /\ InitExport
  /\ InitTicks

Init == InitCrawler /\ InitPure

(***************************************************************************)
(* startCrawling after `await this.loadExistingPostIds()`: the initial     *)
(* crawl, then the observer, the scroll listener and the interval.  cp0 is *)
(* crawledPosts as the bootstrap left it, q0 the request queue, h the      *)
(* handle of what this invocation registers.  FacebookCrawler's override   *)
(* registers no scroll listener.                                           *)
(***************************************************************************)
ResumeStart(cp0, q0, h, op) ==
  \E anchor \in AnchorChoices :
    LET r == processTopPost(platform, anchor, cp0, lastProcessedPosts, clock, postsDB) IN
    /\ crawledPosts' = r.cp
    /\ lastProcessedPosts' = r.lpp
    /\ dbQueue' = Enqueue(q0, r.req)
    /\ addPostCalls' = CountAddPost(addPostCalls, r.req)
    /\ observer' = h
    /\ liveObservers' = liveObservers \cup {h}
    /\ IF platform = "facebook"
       THEN UNCHANGED <<scrollListener, liveListeners>>
       ELSE /\ scrollListener' = h
            /\ liveListeners' = liveListeners \cup {h}
    /\ scrollInterval' = h
    /\ liveIntervals' = liveIntervals \cup {h}
    /\ lastEvent' = Event(op, r.what, anchor, r.id)

\* async startCrawling(), up to the await
StartCrawlingUpTo(maxStarts) ==
  IF isRunning
  THEN /\ lastEvent' = Event("startCrawling", "noop", NoAnchor, <<>>)
       /\ UNCHANGED <<pageVars, fieldVars, envVars, addPostCalls, pureVars, bootstrapped>>
  ELSE /\ starts < maxStarts
       /\ starts' = starts + 1
       /\ isRunning' = TRUE
       /\ IF postsDB
          THEN \* loadExistingPostIds awaits getPostsByPlatform
               /\ Len(dbQueue) < MaxQueue
               /\ dbQueue' = Append(dbQueue, [Req("getPostsByPlatform", NoRec, "startCrawling")
                                                EXCEPT !.handle = starts + 1])
               /\ lastEvent' = Event("startCrawling", "-", NoAnchor, <<>>)
               /\ UNCHANGED <<crawledPosts, observer, scrollListener, scrollInterval,
                              lastProcessedPosts, liveObservers, liveListeners,
                              liveIntervals, addPostCalls>>
          ELSE \* no gateway: loadExistingPostIds returns at once
               ResumeStart(crawledPosts, dbQueue, starts + 1, "startCrawling")
       /\ UNCHANGED <<pageVars, scrollTimeout, noNewContentCount, currentVideoUrl,
                      url, clock, store, timers, clears, pureVars, bootstrapped>>

StartCrawling == StartCrawlingUpTo(MaxStarts)

stopAlwaysTearsDown(running) == FALSE

\* if (!this.isRunning) return
stopReturnsEarly(running) == ~running

\* stopCrawling()
StopCrawling ==
  /\ lastEvent' = Event("stopCrawling", IF isRunning THEN "stopped" ELSE "noop", NoAnchor, <<>>)
  /\ IF stopReturnsEarly(isRunning)
     THEN UNCHANGED <<fieldVars, liveObservers, liveListeners, liveIntervals>>
     ELSE /\ isRunning' = FALSE
          /\ liveObservers' = liveObservers \ {observer}
          /\ observer' = 0
          /\ liveIntervals' = liveIntervals \ {scrollInterval}
          /\ scrollInterval' = 0
          /\ liveListeners' = liveListeners \ {scrollListener}
          /\ scrollListener' = 0
          /\ scrollTimeout' = FALSE
          /\ UNCHANGED <<crawledPosts, lastProcessedPosts, noNewContentCount, currentVideoUrl>>
  /\ UNCHANGED <<pageVars, url, clock, store, dbQueue, timers, starts, clears, addPostCalls, pureVars, bootstrapped>>


(***************************************************************************)
(* One crawl cycle run from a callback: crawlVisiblePosts() is             *)
(* processTopPost().  No caller below checks isRunning before it.          *)
(***************************************************************************)
CrawlCycle(op) ==
  \E anchor \in AnchorChoices :
    LET r == processTopPost(platform, anchor, crawledPosts, lastProcessedPosts, clock, postsDB) IN
    /\ Len(dbQueue) < MaxQueue
    /\ crawledPosts' = r.cp
    /\ lastProcessedPosts' = r.lpp
    /\ dbQueue' = Enqueue(dbQueue, r.req)
    /\ addPostCalls' = CountAddPost(addPostCalls, r.req)
    /\ lastEvent' = Event(op, r.what, anchor, r.id)

\* What autoScroll schedules when processTopPost returned false: the settle
\* timeout after a scroll, or the stuck check after a load-more scroll.
\* RedditCrawler has no findNextPostToScrollTo: the base one throws there.
ScrollBranch(pl, anchor, nextFound) ==
  CASE pl = "twitter" -> "settle"
    [] pl = "facebook" -> IF anchor # NoAnchor THEN "settle" ELSE "none"
    [] pl = "linkedin" -> IF nextFound THEN "settle" ELSE "stuck"
    [] OTHER -> "none"

\* The window.scrollTo autoScroll issues when processTopPost returned false
ScrollIssued(pl, anchor, nextFound) ==
  CASE pl = "twitter" -> IF anchor # NoAnchor THEN "postHeight" ELSE "fallback"
    [] pl = "facebook" -> IF anchor # NoAnchor THEN "postHeight" ELSE "fallback"
    [] pl = "linkedin" -> IF nextFound THEN "nextContainer" ELSE "loadMore"
    [] OTHER -> "none"

scrollAlways(processed) == FALSE

\* if (!processedNewPost) { ... }
scrollSkipped(processed) == processed

\* BaseCrawler.autoScroll / FacebookCrawler.autoScroll, isRunning being true
AutoScroll ==
  \E anchor \in AnchorChoices, nextFound \in BOOLEAN :
    LET r == processTopPost(platform, anchor, crawledPosts, lastProcessedPosts, clock, postsDB)
        skip == scrollSkipped(r.processed)
        kind == IF skip THEN "none" ELSE ScrollBranch(platform, anchor, nextFound)
        scroll == IF skip THEN "none" ELSE ScrollIssued(platform, anchor, nextFound)
    IN /\ Len(dbQueue) < MaxQueue
       /\ kind # "none" => PendingTimeouts < MaxTimeouts
       /\ timers' = IF kind = "none" THEN timers ELSE [timers EXCEPT ![kind] = @ + 1]
       /\ crawledPosts' = r.cp
       /\ lastProcessedPosts' = r.lpp
       /\ dbQueue' = Enqueue(dbQueue, r.req)
       /\ addPostCalls' = CountAddPost(addPostCalls, r.req)
       /\ lastEvent' = Scrolled(Event("autoScroll", r.what, anchor, r.id), scroll)
       /\ UNCHANGED currentVideoUrl

videoAlwaysNew(current, href) == TRUE

\* this.currentVideoUrl !== currentUrl, or this.currentVideoUrl is still ''
videoChanged(current, href) == current # href

\* TikTokCrawler.autoScroll, isRunning being true: processTikTokVideo is
\* scheduled on the first tick and when the URL changed
TikTokAutoScroll ==
  /\ IF videoChanged(currentVideoUrl, url)
     THEN /\ PendingTimeouts < MaxTimeouts
          /\ currentVideoUrl' = url
          /\ timers' = [timers EXCEPT !.tiktok = @ + 1]
     ELSE UNCHANGED <<currentVideoUrl, timers>>
  /\ lastEvent' = NoEvent
  /\ UNCHANGED <<crawledPosts, lastProcessedPosts, dbQueue, addPostCalls>>

\* The setInterval callback: if (this.isRunning) this.autoScroll()
TimerTick ==
  /\ \E h \in liveIntervals :
       IF ~isRunning
       THEN /\ lastEvent' = NoEvent
            /\ UNCHANGED <<crawledPosts, lastProcessedPosts, currentVideoUrl, dbQueue,
                           timers, addPostCalls>>
       ELSE IF platform = "tiktok" THEN TikTokAutoScroll ELSE AutoScroll
  /\ UNCHANGED <<pageVars, isRunning, observer, scrollListener, scrollInterval, scrollTimeout,
                 noNewContentCount, url, clock, store, liveObservers, liveListeners,
                 liveIntervals, starts, clears, pureVars, bootstrapped>>

\* The MutationObserver callback when document height grew: one more
\* untracked timeout that will run crawlVisiblePosts
MutationGrowthUpTo(pending) ==
  /\ \E h \in liveObservers :
       IF ~isRunning THEN UNCHANGED timers
       ELSE /\ PendingTimeouts < pending
            /\ timers' = [timers EXCEPT !.mutation = @ + 1]
  /\ lastEvent' = NoEvent
  /\ UNCHANGED <<pageVars, fieldVars, url, clock, store, dbQueue, liveObservers,
                 liveListeners, liveIntervals, starts, clears, addPostCalls, pureVars, bootstrapped>>

MutationGrowth == MutationGrowthUpTo(MaxTimeouts)

\* The scroll listener when the offset moved by more than 100 px:
\* clearTimeout(this.scrollTimeout), then a new one
ScrollEvent ==
  /\ \E h \in liveListeners :
       IF ~isRunning THEN UNCHANGED scrollTimeout ELSE scrollTimeout' = TRUE
  /\ lastEvent' = NoEvent
  /\ UNCHANGED <<pageVars, isRunning, crawledPosts, observer, scrollListener, scrollInterval,
                 lastProcessedPosts, noNewContentCount, currentVideoUrl, envVars,
                 addPostCalls, pureVars, bootstrapped>>

\* A settle timeout of autoScroll fires: this.processTopPost()
SettleTimeout ==
  /\ timers.settle > 0
  /\ timers' = [timers EXCEPT !.settle = @ - 1]
  /\ CrawlCycle("settleTimeout")
  /\ UNCHANGED <<pageVars, isRunning, observer, scrollListener, scrollInterval, scrollTimeout,
                 noNewContentCount, currentVideoUrl, url, clock, store, liveObservers,
                 liveListeners, liveIntervals, starts, clears, pureVars, bootstrapped>>

\* A timeout of the MutationObserver callback fires: this.crawlVisiblePosts()
MutationTimeout ==
  /\ timers.mutation > 0
  /\ timers' = [timers EXCEPT !.mutation = @ - 1]
  /\ CrawlCycle("mutationTimeout")
  /\ UNCHANGED <<pageVars, isRunning, observer, scrollListener, scrollInterval, scrollTimeout,
                 noNewContentCount, currentVideoUrl, url, clock, store, liveObservers,
                 liveListeners, liveIntervals, starts, clears, pureVars, bootstrapped>>

\* this.scrollTimeout fires: this.crawlVisiblePosts()
ScrollTimeout ==
  /\ scrollTimeout
  /\ scrollTimeout' = FALSE
  /\ CrawlCycle("scrollTimeout")
  /\ UNCHANGED <<pageVars, isRunning, observer, scrollListener, scrollInterval,
                 noNewContentCount, currentVideoUrl, url, clock, store, liveObservers,
                 liveListeners, liveIntervals, timers, starts, clears, pureVars, bootstrapped>>

\* The stuck check of the load-more branch fires, the document height being
\* the same as this.lastScrollHeight or not
StuckThreshold == 5

\* if (this.noNewContentCount >= 5) after the increment: the recovery scroll
stuckRecovery(count, sameHeight) == sameHeight /\ count + 1 >= StuckThreshold

\* this.noNewContentCount after the check
stuckCount(count, sameHeight) ==
  IF sameHeight
  THEN IF stuckRecovery(count, sameHeight) THEN 0 ELSE count + 1
  ELSE 0

StuckCheck ==
  /\ timers.stuck > 0
  /\ timers' = [timers EXCEPT !.stuck = @ - 1]
  /\ \E sameHeight \in BOOLEAN :
       /\ noNewContentCount' = stuckCount(noNewContentCount, sameHeight)
       /\ lastEvent' = IF stuckRecovery(noNewContentCount, sameHeight)
                       THEN Scrolled(Event("stuckCheck", "-", NoAnchor, <<>>), "bottom")
                       ELSE NoEvent
  /\ UNCHANGED <<pageVars, isRunning, crawledPosts, observer, scrollListener, scrollInterval,
                 scrollTimeout, lastProcessedPosts, currentVideoUrl, url, clock, store,
                 dbQueue, liveObservers, liveListeners, liveIntervals, starts, clears,
                 addPostCalls, pureVars, bootstrapped>>

\* TikTokCrawler.processTikTokVideo once its waits are over: the preview,
\* then extractPostData up to its lookup, on the page shown by then
ProcessTikTokVideo ==
  /\ timers.tiktok > 0
  /\ timers' = [timers EXCEPT !.tiktok = @ - 1]
  /\ Len(dbQueue) < MaxQueue
  /\ LET d == PostData("tiktok", url, clock)
         req == tiktokExtractCall(url, crawledPosts, clock, postsDB, "processTikTokVideo")
     IN /\ dbQueue' = Enqueue(dbQueue, req)
        /\ addPostCalls' = CountAddPost(addPostCalls, req)
        /\ lastEvent' = Event("processTikTokVideo",
                              IF d.id \in crawledPosts THEN "already"
                              ELSE IF postsDB THEN "lookup" ELSE "saved",
                              url, d.id)
  /\ UNCHANGED <<pageVars, fieldVars, url, clock, store, liveObservers, liveListeners,
                 liveIntervals, starts, clears, pureVars, bootstrapped>>

\* TikTok's autoplay moves on to the next video page
Navigate ==
  /\ platform = "tiktok"
  /\ \E u \in feed :
       /\ url' = u
       /\ feed' = feed \ {u}
  /\ lastEvent' = NoEvent
  /\ UNCHANGED <<platform, postsDB, postIds, fieldVars, clock, store, dbQueue, liveObservers,
                 liveListeners, liveIntervals, timers, starts, clears, addPostCalls, pureVars,
                 bootstrapped>>

\* Time passes
ClockTick ==
  /\ clock < MaxClock
  /\ clock' = clock + 1
  /\ lastEvent' = NoEvent
  /\ UNCHANGED <<pageVars, fieldVars, url, store, dbQueue, liveObservers, liveListeners,
                 liveIntervals, timers, starts, clears, addPostCalls, pureVars, bootstrapped>>

(***************************************************************************)
(* IndexedDB completes the request at the head of the queue and the        *)
(* coroutine that awaits it runs on to its next suspension.                *)
(***************************************************************************)
MaxWriteFailures == 1

\* loadExistingPostIds after the read: clear and repopulate, or the catch
loadExistingPostIds(cp, records, pl, ok) ==
  IF ok THEN {r.id : r \in {x \in records : x.platform = pl}} ELSE cp

savePostMarksAnyway(cp, id, ok) == cp \cup {id}

\* savePost after `await addPost`: the id is marked, or the catch returns false
savePostResume(cp, id, ok) == IF ok THEN cp \cup {id} ELSE cp

savePostCatchStops(running) == FALSE

\* the catch of savePost logs and returns false: isRunning stays as it was
savePostCatch(running) == running

Rejected(calls, id) ==
  IF id \in DOMAIN calls THEN [calls EXCEPT ![id].rejected = @ + 1] ELSE calls

CanReject(id) == id \in DOMAIN addPostCalls => addPostCalls[id].rejected < MaxWriteFailures

\* getPostsByPlatform resolves or rejects; startCrawling resumes
DbGetPostsByPlatform ==
  /\ dbQueue # <<>>
  /\ Head(dbQueue).kind = "getPostsByPlatform"
  /\ \E ok \in BOOLEAN :
       /\ bootstrapped' = (bootstrapped \/ ok)
       /\ ResumeStart(loadExistingPostIds(crawledPosts, store, platform, ok), Tail(dbQueue),
                      Head(dbQueue).handle, "resumeStart")
  /\ UNCHANGED <<pageVars, isRunning, scrollTimeout, noNewContentCount, currentVideoUrl,
                 url, clock, store, timers, starts, clears, pureVars>>

\* store.add of addPost: success, ConstraintError (addPost goes on to
\* updatePost) or another error (addPost rejects)
DbAdd ==
  /\ dbQueue # <<>>
  /\ Head(dbQueue).kind = "add"
  /\ LET req == Head(dbQueue)
         id == req.rec.id
     IN \E ok \in BOOLEAN :
          IF ~ok
          THEN /\ CanReject(id)
               /\ dbQueue' = Tail(dbQueue)
               /\ crawledPosts' = savePostResume(crawledPosts, id, FALSE)
               /\ isRunning' = savePostCatch(isRunning)
               /\ addPostCalls' = Rejected(addPostCalls, id)
               /\ lastEvent' = Event("savePost", "failed", req.rec.post, id)
               /\ UNCHANGED store
          ELSE IF \E r \in store : r.id = id
          THEN /\ dbQueue' = Append(Tail(dbQueue), [req EXCEPT !.kind = "put"])
               /\ lastEvent' = Event("addPost", "constraintError", req.rec.post, id)
               /\ UNCHANGED <<store, crawledPosts, isRunning, addPostCalls>>
          ELSE /\ dbQueue' = Tail(dbQueue)
               /\ store' = store \cup {req.rec}
               /\ crawledPosts' = savePostResume(crawledPosts, id, TRUE)
               /\ lastEvent' = Event("savePost", "stored", req.rec.post, id)
               /\ UNCHANGED <<isRunning, addPostCalls>>
  /\ UNCHANGED <<pageVars, observer, scrollListener, scrollInterval, scrollTimeout,
                 lastProcessedPosts, noNewContentCount, currentVideoUrl, url, clock,
                 liveObservers, liveListeners, liveIntervals, timers, starts, clears, pureVars, bootstrapped>>

putKeepsBoth(records, rec) == records \cup {rec}

\* store.put(post): the record replaces the one stored under its id
putRecord(records, rec) == {r \in records : r.id # rec.id} \cup {rec}

\* store.put of updatePost
DbPut ==
  /\ dbQueue # <<>>
  /\ Head(dbQueue).kind = "put"
  /\ LET req == Head(dbQueue)
         id == req.rec.id
     IN \E ok \in BOOLEAN :
          /\ ~ok => CanReject(id)
          /\ dbQueue' = Tail(dbQueue)
          /\ store' = IF ok THEN putRecord(store, req.rec) ELSE store
          /\ crawledPosts' = savePostResume(crawledPosts, id, ok)
          /\ isRunning' = IF ok THEN isRunning ELSE savePostCatch(isRunning)
          /\ addPostCalls' = IF ok THEN addPostCalls ELSE Rejected(addPostCalls, id)
          /\ lastEvent' = Event("savePost", IF ok THEN "updated" ELSE "failed", req.rec.post, id)
  /\ UNCHANGED <<pageVars, observer, scrollListener, scrollInterval, scrollTimeout,
                 lastProcessedPosts, noNewContentCount, currentVideoUrl, url, clock,
                 liveObservers, liveListeners, liveIntervals, timers, starts, clears, pureVars, bootstrapped>>

getPostAlwaysFound(records, id, ok) == TRUE

\* `if (existingPost)` after `await window.postsDB.getPost(uniqueId)`: the
\* lookup succeeded and returned a record
getPostFound(records, id, ok) == ok /\ \E r \in records : r.id = id

\* store.get of TikTokCrawler.extractPostData's lookup.  Found: the id is
\* cached and the caller told alreadyCrawled.  Not found, or the lookup
\* failed: the postData is returned, and processTikTokVideo saves it unless
\* crawledPosts got the id meanwhile; processTopPost dropped the promise.
DbGet ==
  /\ dbQueue # <<>>
  /\ Head(dbQueue).kind = "get"
  /\ LET req == Head(dbQueue)
         id == req.rec.id
     IN \E ok \in BOOLEAN :
          IF getPostFound(store, id, ok)
          THEN /\ crawledPosts' = crawledPosts \cup {id}
               /\ dbQueue' = Tail(dbQueue)
               /\ lastEvent' = Event("extractPostData", "alreadyCrawled", req.rec.post, id)
               /\ UNCHANGED addPostCalls
          ELSE LET save == IF req.cont = "processTikTokVideo" /\ id \notin crawledPosts
                           THEN savePostCall(req.rec, postsDB) ELSE NoReq
               IN /\ dbQueue' = Enqueue(Tail(dbQueue), save)
                  /\ addPostCalls' = CountAddPost(addPostCalls, save)
                  /\ lastEvent' = Event(req.cont, IF save = NoReq THEN "dropped" ELSE "saved",
                                        req.rec.post, id)
                  /\ UNCHANGED crawledPosts
  /\ UNCHANGED <<pageVars, isRunning, observer, scrollListener, scrollInterval, scrollTimeout,
                 lastProcessedPosts, noNewContentCount, currentVideoUrl, url, clock, store,
                 liveObservers, liveListeners, liveIntervals, timers, starts, clears, pureVars, bootstrapped>>

\* clearData(), the user having confirmed, up to `await clearAllPosts()`
ClearData ==
  /\ IF ~postsDB
     THEN UNCHANGED <<dbQueue, clears>>
     ELSE /\ clears < MaxClears
          /\ Len(dbQueue) < MaxQueue
          /\ clears' = clears + 1
          /\ dbQueue' = Append(dbQueue, Req("clear", NoRec, "clearData"))
  /\ lastEvent' = Event("clearData", IF postsDB THEN "-" ELSE "noGateway", NoAnchor, <<>>)
  /\ UNCHANGED <<pageVars, fieldVars, url, clock, store, liveObservers, liveListeners,
                 liveIntervals, timers, starts, addPostCalls, pureVars, bootstrapped>>

\* store.clear of clearAllPosts; clearData goes on to `await getPostCount()`
\* or to its catch
DbClear ==
  /\ dbQueue # <<>>
  /\ Head(dbQueue).kind = "clear"
  /\ \E ok \in BOOLEAN :
       /\ store' = IF ok THEN {} ELSE store
       /\ dbQueue' = IF ok THEN Append(Tail(dbQueue), Req("count", NoRec, "clearData"))
                     ELSE Tail(dbQueue)
  /\ lastEvent' = NoEvent
  /\ UNCHANGED <<pageVars, fieldVars, url, clock, liveObservers, liveListeners,
                 liveIntervals, timers, starts, clears, addPostCalls, pureVars, bootstrapped>>

\* store.count of getPostCount; clearData clears crawledPosts, or its catch
DbCount ==
  /\ dbQueue # <<>>
  /\ Head(dbQueue).kind = "count"
  /\ \E ok \in BOOLEAN :
       /\ crawledPosts' = IF ok THEN {} ELSE crawledPosts
       /\ lastEvent' = Event("clearData", IF ok THEN "cleared" ELSE "failed", NoAnchor, <<>>)
  /\ dbQueue' = Tail(dbQueue)
  /\ UNCHANGED <<pageVars, isRunning, observer, scrollListener, scrollInterval, scrollTimeout,
                 lastProcessedPosts, noNewContentCount, currentVideoUrl, url, clock, store,
                 liveObservers, liveListeners, liveIntervals, timers, starts, clears,
                 addPostCalls, pureVars, bootstrapped>>

Next ==
  \/ StartCrawling
  \/ StopCrawling
  \/ TimerTick
  \/ MutationGrowth
  \/ ScrollEvent
  \/ SettleTimeout
  \/ MutationTimeout
  \/ ScrollTimeout
  \/ StuckCheck
  \/ ProcessTikTokVideo
  \/ Navigate
  \/ ClockTick
  \/ DbGetPostsByPlatform
  \/ DbAdd
  \/ DbPut
  \/ DbGet

Spec == Init /\ [][Next]_vars

(***************************************************************************)
(* The crawl loop of a feed page with the gateway available, together with *)
(* the Clear button of the control panel.  On Twitter autoScroll never     *)
(* reaches the load-more branch, so no stuck check is ever scheduled.      *)
(***************************************************************************)
\* the page this specification opens: a Twitter feed showing a post with
\* text, author and timestamp
ClearPlatforms == {"twitter"}
ClearFeeds == {{1}}

InitClear ==
  /\ Init
  /\ platform \in ClearPlatforms
  /\ feed \in ClearFeeds
  /\ postsDB

NextClear ==
  \/ StartCrawling
  \/ StopCrawling
  \/ TimerTick
  \/ MutationGrowth
  \/ ScrollEvent
  \/ SettleTimeout
  \/ MutationTimeout
  \/ ScrollTimeout
  \/ ClockTick
  \/ DbGetPostsByPlatform
  \/ DbAdd
  \/ DbPut
  \/ ClearData
  \/ DbClear
  \/ DbCount

SpecClear == InitClear /\ [][NextClear]_vars

(***************************************************************************)
(* The id computation on its own: the same extracted fields handed to one  *)
(* of the id functions several times while the wall clock advances.        *)
(***************************************************************************)
MaxIdCalls == 2

\* Strings over the alphabet {h, i} of length at most n
Strings(n) == UNION {[1..k -> {104, 105}] : k \in 0..n}

IdFunctions == {"createPostId", "createFacebookPostId", "createTikTokPostId"}

\* The page path of a TikTok video, with or without a /video/<digits> part
IdHref(videoId) == <<47>> \o videoId

computeId(F, clk) ==
  CASE F.fn = "createFacebookPostId" -> createFacebookPostId(F.text, F.author, F.timestamp)
    [] F.fn = "createTikTokPostId" ->
         createTikTokPostId(F.videoId, IdHref(F.videoId), F.text, <<>>, F.author, clk)
    [] OTHER -> createPostId(F.text, F.author, F.timestamp, clk)

\* No page is open: only the pure functions are exercised
NoPage ==
  /\ platform = "twitter"
  /\ postsDB = FALSE
  /\ feed = {}
  /\ url = NoAnchor
  /\ postIds = <<>>

InitId ==
  /\ NoPage
  /\ InitFields
  /\ idArgs \in [fn : IdFunctions, text : Strings(MaxStrLen), author : {<<>>, <<97>>},
                 timestamp : {<<>>, <<49, 50>>}, videoId : {<<>>, <<55>>}]
  /\ idCalls = <<>>
  /\ cands = <<>>
  /\ topPost = -1
  /\ InitScroll
  /\ InitExport
  /\ InitTicks

\* One more call with the same fields
CallComputeId ==
  /\ Len(idCalls) < MaxIdCalls
  /\ idCalls' = Append(idCalls, computeId(idArgs, clock))
  /\ UNCHANGED <<pageVars, fieldVars, envVars, histVars, idArgs, cands, topPost, scrollVars, exportVars, tickVars>>

\* Time passes between two calls
IdClockTick ==
  /\ clock < MaxClock
  /\ clock' = clock + 1
  /\ UNCHANGED <<pageVars, fieldVars, url, store, dbQueue, liveObservers, liveListeners,
                 liveIntervals, timers, starts, clears, histVars, pureVars>>

NextId == CallComputeId \/ IdClockTick

SpecId == InitId /\ [][NextId]_vars

(***************************************************************************)
(* The anchor selector on its own.  A candidate is the bounding rectangle  *)
(* of a post container, relative to the viewport top, in units of 10 px.   *)
(* Scores are compared exactly: score = ScoreNum / height.                 *)
(***************************************************************************)
InnerHeight == 80

Rect(top, height) == [top |-> top, height |-> height]

\* fully visible; cut at the top; barely visible at the top and at the
\* bottom; mostly below the fold; tall and mostly scrolled past; below the
\* viewport; empty container
Rects ==
  { Rect(0, 40), Rect(-6, 40), Rect(-6, 10), Rect(-12, 40), Rect(-12, 15),
    Rect(79, 10), Rect(-130, 200), Rect(90, 10), Rect(1, 0) }

\* postBottom > viewportTop && postTop < viewportTop + viewportHeight
InViewport(c) == c.top + c.height > 0 /\ c.top < InnerHeight

visibleHeight(c) == Min(c.top + c.height, InnerHeight) - Max(c.top, 0)

\* visibilityRatio >= 0.5 (0/0 is NaN, which compares false)
AtLeastHalfVisible(c) == c.height > 0 /\ 2 * visibleHeight(c) >= c.height

AnyVisibility(c) == TRUE

\* visibilityRatio >= 0.3
MeetsThreshold(c) == c.height > 0 /\ 10 * visibleHeight(c) >= 3 * c.height

\* rect.top >= -50 earns 20, rect.top >= -100 with half the post visible 10
ScoreBonus(c) ==
  (IF c.top >= -5 THEN 20 ELSE 0) + (IF c.top >= -10 /\ AtLeastHalfVisible(c) THEN 10 ELSE 0)

\* score * height, score being ratio * 100 - |rect.top| / 10 + bonus
ScoreNum(c) == 100 * visibleHeight(c) - Abs(c.top) * c.height + ScoreBonus(c) * c.height

\* the state of the forEach loop: topPost (0 for null) and bestScore as a fraction
NoBest == [post |-> 0, num |-> -1, den |-> 1]

\* score > bestScore
Better(c, best) == ScoreNum(c) * best.den > best.num * c.height

RECURSIVE ScanPosts(_, _, _)
ScanPosts(posts, i, best) ==
  IF i > Len(posts) THEN best.post
  ELSE LET c == posts[i] IN
       IF InViewport(c) /\ MeetsThreshold(c) /\ Better(c, best)
       THEN ScanPosts(posts, i + 1, [post |-> i, num |-> ScoreNum(c), den |-> c.height])
       ELSE ScanPosts(posts, i + 1, best)

getTopPostInViewport(posts) == ScanPosts(posts, 1, NoBest)

InitAnchor ==
  /\ NoPage
  /\ InitFields
  /\ cands \in UNION {[1..k -> Rects] : k \in 1..MaxCands}
  /\ topPost = -1
  /\ idArgs = <<>>
  /\ idCalls = <<>>
  /\ InitScroll
  /\ InitExport
  /\ InitTicks

\* processTopPost asks for the anchor
SelectTopPost ==
  /\ topPost = -1
  /\ topPost' = getTopPostInViewport(cands)
  /\ UNCHANGED <<pageVars, fieldVars, envVars, histVars, idArgs, idCalls, cands, scrollVars, exportVars, tickVars>>

NextAnchor == SelectTopPost

SpecAnchor == InitAnchor /\ [][NextAnchor]_vars

(***************************************************************************)
(* The scroll step of autoScroll on its own: what it passes to             *)
(* window.scrollTo when processTopPost returned false.  Offsets are in px; *)
(* a candidate's rectangle is in units of PxPerUnit px.                    *)
(***************************************************************************)
PxPerUnit == 10
InnerHeightPx == InnerHeight * PxPerUnit

\* BaseCrawler.autoScroll, the Twitter branch
twitterScrollTarget(posts, y) ==
  LET currentTopPost == getTopPostInViewport(posts) IN
  IF currentTopPost # 0
  THEN LET postHeight == posts[currentTopPost].height * PxPerUnit
           amount == Min(Max(postHeight, 100), 800)
           scrollAmount == IF y + amount <= y THEN 200 ELSE amount
       IN y + scrollAmount
  ELSE y + 200

\* FacebookCrawler.autoScroll: Math.min(postHeight * 0.7, 400), or 300
facebookScrollTarget(posts, y) ==
  LET currentTopPost == getTopPostInViewport(posts) IN
  IF currentTopPost # 0
  THEN y + Min(7 * posts[currentTopPost].height, 400)
  ELSE y + 300

\* the forEach loop of findNextPostToScrollTo: the nearest post more than
\* 100 px below the current one (next = 0 for null)
RECURSIVE NearestBelow(_, _, _, _)
NearestBelow(posts, i, cur, next) ==
  IF i > Len(posts) THEN next
  ELSE IF /\ posts[i].top > posts[cur].top + 10
          /\ (next = 0 \/ posts[i].top < posts[next].top)
       THEN NearestBelow(posts, i + 1, cur, i)
       ELSE NearestBelow(posts, i + 1, cur, next)

\* LinkedInCrawler.findNextPostToScrollTo (0 for null)
findNextPostToScrollTo(posts) ==
  LET currentTopPost == getTopPostInViewport(posts) IN
  IF currentTopPost = 0 THEN (IF Len(posts) > 0 THEN 1 ELSE 0)
  ELSE NearestBelow(posts, 1, currentTopPost, 0)

\* BaseCrawler.autoScroll, the branch of the other platforms
baseScrollTarget(posts, y, docHeight) ==
  LET nextPost == findNextPostToScrollTo(posts) IN
  IF nextPost # 0
  THEN LET postTop == posts[nextPost].top * PxPerUnit + y
           targetScrollY == postTop - 50
       IN IF Abs(targetScrollY - y) < 10 THEN y + 200 ELSE targetScrollY
  ELSE Min(y + (InnerHeightPx * 8) \div 10, docHeight - InnerHeightPx)

\* The adapters whose autoScroll calls window.scrollTo (TikTok returns
\* before it; RedditCrawler has no findNextPostToScrollTo and the base one
\* throws)
ScrollingPlatforms == {"twitter", "facebook", "linkedin"}

\* The tops autoScroll passes to window.scrollTo
scrollTargets(pl, posts, y, docHeight) ==
  CASE pl = "twitter" -> <<twitterScrollTarget(posts, y)>>
    [] pl = "facebook" -> <<facebookScrollTarget(posts, y)>>
    [] pl = "linkedin" -> <<baseScrollTarget(posts, y, docHeight)>>

\* the scroll offsets and the heights of the document below the viewport top
ScrollOffsets == {0, 1300, 5000}
HeightsBelow == {InnerHeightPx, 2000}

\* every container lies inside the document
InDocument(c, y, docHeight) ==
  /\ c.top * PxPerUnit + y >= 0
  /\ (c.top + c.height) * PxPerUnit + y <= docHeight

InitScrollStep ==
  /\ platform \in ScrollingPlatforms
  /\ postsDB = FALSE
  /\ feed = {}
  /\ url = NoAnchor
  /\ postIds = <<>>
  /\ InitFields
  /\ idArgs = <<>>
  /\ idCalls = <<>>
  /\ topPost = -1
  /\ scrollY \in ScrollOffsets
  /\ scrollHeight \in {scrollY + h : h \in HeightsBelow}
  /\ cands \in UNION {[1..k -> Rects] : k \in 0..MaxCands}
  /\ \A k \in DOMAIN cands : InDocument(cands[k], scrollY, scrollHeight)
  /\ scrolledTo = <<>>
  /\ InitExport
  /\ InitTicks

\* autoScroll after processTopPost returned false
ScrollDown ==
  /\ scrolledTo = <<>>
  /\ scrolledTo' = scrollTargets(platform, cands, scrollY, scrollHeight)
  /\ UNCHANGED <<pageVars, fieldVars, envVars, histVars, idArgs, idCalls, cands, topPost,
                 scrollY, scrollHeight, exportVars, tickVars>>

NextScroll == ScrollDown

SpecScroll == InitScrollStep /\ [][NextScroll]_vars

(***************************************************************************)
(* The CSV export of db.js.  Strings are sequences of character codes.     *)
(***************************************************************************)
MaxExportPosts == 2
MaxFieldLen == 1

Quote == 34
Newline == 10
Space == 32
Comma == 44

\* String.prototype.replace(/c/g, to) for a one-character pattern
RECURSIVE ReplaceAll(_, _, _)
ReplaceAll(s, c, to) ==
  IF s = <<>> THEN <<>>
  ELSE (IF Head(s) = c THEN to ELSE <<Head(s)>>) \o ReplaceAll(Tail(s), c, to)

\* Array.prototype.join
RECURSIVE Join(_, _)
Join(rows, sep) ==
  IF rows = <<>> THEN <<>>
  ELSE IF Len(rows) = 1 THEN rows[1]
  ELSE rows[1] \o sep \o Join(Tail(rows), sep)

\* String.prototype.split(sep).length for a one-character separator
SplitLength(s, sep) == 1 + Cardinality({i \in DOMAIN s : s[i] = sep})

csvHeader == <<
  73, 68, 44, 80, 108, 97, 116, 102, 111, 114, 109, 44, 65, 117, 116, 104,
  111, 114, 32, 78, 97, 109, 101, 44, 65, 117, 116, 104, 111, 114, 32, 72,
  97, 110, 100, 108, 101, 44, 84, 101, 120, 116, 44, 84, 105, 109, 101, 115,
  116, 97, 109, 112, 44, 85, 82, 76, 44, 67, 114, 97, 119, 108, 101, 100,
  32, 65, 116, 44, 76, 105, 107, 101, 115, 44, 82, 101, 116, 119, 101, 101,
  116, 115, 44, 82, 101, 112, 108, 105, 101, 115, 44, 86, 105, 101, 119, 115,
  10>>

\* `"${field}"` of the row template
Quoted(field) == <<Quote>> \o field \o <<Quote>>

\* post.metrics?.likes || 0 and its siblings: the records carry no metrics
NoMetric == <<48>>

\* the callback of posts.map in the csv case
csvRow(post) ==
  LET text == ReplaceAll(ReplaceAll(post.text, Quote, <<Quote, Quote>>), Newline, <<Space>>)
      authorName == ReplaceAll(post.author.name, Quote, <<Quote, Quote>>)
      authorHandle == ReplaceAll(post.author.handle, Quote, <<Quote, Quote>>)
  IN Join(<<Quoted(post.id), Quoted(post.platform), Quoted(authorName), Quoted(authorHandle),
            Quoted(text), Quoted(post.timestamp), Quoted(post.url), Quoted(post.crawledAt),
            Quoted(NoMetric), Quoted(NoMetric), Quoted(NoMetric), Quoted(NoMetric)>>, <<Comma>>)

\* PostsDB.exportData('csv'): null for an empty store, else header and rows
exportData(posts) ==
  IF Len(posts) = 0 THEN [called |-> TRUE, null |-> TRUE, data |-> <<>>]
  ELSE [called |-> TRUE, null |-> FALSE,
        data |-> csvHeader \o Join([k \in DOMAIN posts |-> csvRow(posts[k])], <<Newline>>)]

\* The strings a scraped field can hold: a letter, a quote, a line break
FieldChars == {97, Quote, Newline}
FieldStrings == UNION {[1..k -> FieldChars] : k \in 0..MaxFieldLen}

\* The record stored under key k: a Twitter post with scraped text and author name
StoredPost(k, text, name) ==
  [id |-> <<116, 48 + k>>, platform |-> <<116>>, author |-> [name |-> name, handle |-> <<64, 97>>],
   text |-> text, timestamp |-> <<49>>, url |-> <<117>>, crawledAt |-> <<50>>]

InitExportStep ==
  /\ NoPage
  /\ InitFields
  /\ idArgs = <<>>
  /\ idCalls = <<>>
  /\ cands = <<>>
  /\ topPost = -1
  /\ InitScroll
  /\ InitTicks
  /\ \E n \in 0..MaxExportPosts :
       \E t \in [1..n -> FieldStrings], a \in [1..n -> FieldStrings] :
         exportPosts = [k \in 1..n |-> StoredPost(k, t[k], a[k])]
  /\ exported = NotExported

\* The user clicks "Export CSV"
ExportCsv ==
  /\ ~exported.called
  /\ exported' = exportData(exportPosts)
  /\ UNCHANGED <<pageVars, fieldVars, envVars, histVars, idArgs, idCalls, cands, topPost,
                 scrollVars, exportPosts, tickVars>>

NextExport == ExportCsv

SpecExport == InitExportStep /\ [][NextExport]_vars

(***************************************************************************)
(* The rate-limit guard of processTopPost over a series of crawl cycles    *)
(* that target the same positions while time passes.                       *)
(***************************************************************************)
MaxRateClock == 3
MaxPassed == 5

\* the positions (postKey) the cycles target
RatePositions == {1, 2}

InitRate ==
  /\ NoPage
  /\ InitFields
  /\ idArgs = <<>>
  /\ idCalls = <<>>
  /\ cands = <<>>
  /\ topPost = -1
  /\ InitScroll
  /\ InitExport
  /\ InitTicks

\* A crawl cycle whose anchor is at position key reaches the guard
RateCycle ==
  /\ Len(passedAt) < MaxPassed
  /\ \E key \in RatePositions :
       LET rl == RateLimitGuard(lastProcessedPosts, key, clock) IN
       /\ lastProcessedPosts' = rl.lpp
       /\ passedAt' = IF rl.skip THEN passedAt
                      ELSE Append(passedAt, [key |-> key, at |-> clock])
  /\ UNCHANGED <<pageVars, isRunning, crawledPosts, observer, scrollListener, scrollInterval,
                 scrollTimeout, noNewContentCount, currentVideoUrl, envVars, histVars,
                 idArgs, idCalls, cands, topPost, scrollVars, exportVars, lastScrollHeight,
                 stagnantScrolls>>

\* Time passes between two cycles
RateClockTick ==
  /\ clock < MaxRateClock
  /\ clock' = clock + 1
  /\ UNCHANGED <<pageVars, fieldVars, url, store, dbQueue, liveObservers, liveListeners,
                 liveIntervals, timers, starts, clears, histVars, pureVars>>

NextRate == RateCycle \/ RateClockTick

SpecRate == InitRate /\ [][NextRate]_vars

(***************************************************************************)
(* The scroll advancement of a running crawler on a page whose only post   *)
(* is never recorded (a media-only post), without a gateway: every tick    *)
(* of the interval ends in the scroll branch of autoScroll.  The document  *)
(* height grows when the host page loads more content.                     *)
(***************************************************************************)
MaxStagnant == 6
MaxGrowths == 1
StartHeight == 2000
GrowthPx == 1000

\* the state startCrawling leaves when its initial cycle found no anchor
InitRunningOn(post, maxClock) ==
  /\ platform \in ScrollingPlatforms
  /\ postsDB = FALSE
  /\ feed = {post}
  /\ url = NoAnchor
  /\ postIds = IdTableUpTo(platform, maxClock)
  /\ isRunning = TRUE
  /\ crawledPosts = {}
  /\ observer = 1
  /\ liveObservers = {1}
  /\ scrollListener = IF platform = "facebook" THEN 0 ELSE 1
  /\ liveListeners = IF platform = "facebook" THEN {} ELSE {1}
  /\ scrollInterval = 1
  /\ liveIntervals = {1}
  /\ scrollTimeout = FALSE
  /\ lastProcessedPosts = [k \in PostIx |-> NoEntry]
  /\ noNewContentCount = 0
  /\ currentVideoUrl = -1
  /\ clock = 0
  /\ store = {}
  /\ dbQueue = <<>>
  /\ timers = NoTimers
  /\ starts = 1
  /\ clears = 0
  /\ lastEvent = Event("startCrawling", "noAnchor", NoAnchor, <<>>)
  /\ addPostCalls = <<>>
  /\ bootstrapped = FALSE
  /\ idArgs = <<>>
  /\ idCalls = <<>>
  /\ cands = <<>>
  /\ topPost = -1
  /\ scrollY = 0
  /\ scrolledTo = <<>>
  /\ InitExport
  /\ passedAt = <<>>
  /\ scrollHeight = StartHeight
  /\ lastScrollHeight = StartHeight
  /\ stagnantScrolls = <<>>

\* The page shows one post without text, which no cycle records
InitStuck == InitRunningOn(2, MaxClock)

\* The setInterval callback, with the scroll it issued kept in the history
StuckTick ==
  /\ Len(stagnantScrolls) < MaxStagnant
  /\ \E h \in liveIntervals : isRunning /\ AutoScroll
  /\ stagnantScrolls' = IF lastEvent'.scroll = "none" THEN stagnantScrolls
                        ELSE Append(stagnantScrolls, lastEvent'.scroll)
  /\ UNCHANGED <<pageVars, isRunning, observer, scrollListener, scrollInterval, scrollTimeout,
                 noNewContentCount, url, clock, store, liveObservers, liveListeners,
                 liveIntervals, starts, clears, bootstrapped, idArgs, idCalls, cands, topPost,
                 scrollVars, exportVars, passedAt, lastScrollHeight>>

\* The stuck check of the load-more branch, 2000 ms after its scroll
StuckCheckOnPage ==
  /\ timers.stuck > 0
  /\ timers' = [timers EXCEPT !.stuck = @ - 1]
  /\ LET sameHeight == scrollHeight = lastScrollHeight IN
     /\ noNewContentCount' = stuckCount(noNewContentCount, sameHeight)
     /\ IF stuckRecovery(noNewContentCount, sameHeight)
        THEN /\ lastEvent' = Scrolled(Event("stuckCheck", "-", NoAnchor, <<>>), "bottom")
             /\ stagnantScrolls' = Append(stagnantScrolls, "bottom")
        ELSE /\ lastEvent' = NoEvent
             /\ UNCHANGED stagnantScrolls
  /\ lastScrollHeight' = scrollHeight
  /\ UNCHANGED <<pageVars, isRunning, crawledPosts, observer, scrollListener, scrollInterval,
                 scrollTimeout, lastProcessedPosts, currentVideoUrl, url, clock, store,
                 dbQueue, liveObservers, liveListeners, liveIntervals, starts, clears,
                 addPostCalls, bootstrapped, idArgs, idCalls, cands, topPost, scrollVars,
                 exportVars, passedAt>>

\* The host page loads more content: the document gets higher
PageGrows ==
  /\ scrollHeight < StartHeight + MaxGrowths * GrowthPx
  /\ scrollHeight' = scrollHeight + GrowthPx
  /\ stagnantScrolls' = <<>>
  /\ lastEvent' = NoEvent
  /\ UNCHANGED <<pageVars, fieldVars, envVars, addPostCalls, bootstrapped, idArgs, idCalls,
                 cands, topPost, scrollY, scrolledTo, exportVars, passedAt, lastScrollHeight>>

NextStuck ==
  \/ StuckTick
  \/ SettleTimeout
  \/ StuckCheckOnPage
  \/ PageGrows

SpecStuck == InitStuck /\ [][NextStuck]_vars

(***************************************************************************)
(* The MutationObserver of a running crawler when the document height      *)
(* grows several times before the first timeout it scheduled has fired.    *)
(***************************************************************************)
MaxRapidGrowths == 2

\* Growth events in quick succession
RapidGrowth == MutationGrowthUpTo(MaxRapidGrowths)

NextDebounce ==
  \/ RapidGrowth
  \/ MutationTimeout
  \/ ClockTick
  \/ StopCrawling

SpecDebounce == InitStuck /\ [][NextDebounce]_vars

(***************************************************************************)
(* Start and stop buttons pressed in quick succession on a Twitter page    *)
(* with the gateway available: a start can be stopped and started again    *)
(* before its bootstrap read has resolved.                                 *)
(***************************************************************************)
MaxRestarts == 2

InitRestart ==
  /\ Init
  /\ platform = "twitter"
  /\ feed = {1}
  /\ postsDB

Restart == StartCrawlingUpTo(MaxRestarts)

NextRestart ==
  \/ Restart
  \/ StopCrawling
  \/ DbGetPostsByPlatform
  \/ DbAdd
  \/ DbPut

SpecRestart == InitRestart /\ [][NextRestart]_vars

(***************************************************************************)
(* The crawl on one anchor that is never persisted: the page shows one     *)
(* post with text at a fixed offset, window.postsDB is missing, so savePost *)
(* returns without a write and the id never enters crawledPosts.  Date.now() *)
(* is read only through timeDiff = currentTime - lastProcessed.timestamp,   *)
(* so the clock is kept relative to the timestamp of the anchor's entry:    *)
(* when time passes after the entry was stamped at a later step, both are   *)
(* moved back by the same amount.  A timeDiff above RateResetMs reads the   *)
(* same however large, so the clock stays at MaxLiveClock steps.            *)
(***************************************************************************)
MaxLiveClock == 3

\* A post whose text, author and timestamp are all read from the page
LivePost ==
  CHOOSE i \in PostIx :
    Posts[i].text # <<>> /\ Posts[i].author # <<>> /\ Posts[i].timestamp # <<>>

InitLive == InitRunningOn(LivePost, MaxLiveClock)

\* The setInterval callback while the top post stays the one at its offset
AnchoredTick ==
  /\ \E h \in liveIntervals : isRunning /\ AutoScroll
  /\ lastEvent'.anchor = LivePost
  /\ UNCHANGED <<pageVars, isRunning, observer, scrollListener, scrollInterval, scrollTimeout,
                 noNewContentCount, url, clock, store, liveObservers, liveListeners,
                 liveIntervals, starts, clears, pureVars, bootstrapped>>

\* One step of ClockStepMs passes between two callbacks
LiveClockTick ==
  LET entry == lastProcessedPosts[PostKey(platform, LivePost)]
      base == IF entry = NoEntry THEN 0 ELSE entry.timestamp \div ClockStepMs
  IN /\ clock' = Min(clock - base + 1, MaxLiveClock)
     /\ lastProcessedPosts' =
          IF entry = NoEntry THEN lastProcessedPosts
          ELSE [lastProcessedPosts EXCEPT ![PostKey(platform, LivePost)].timestamp = 0]
     /\ lastEvent' = NoEvent
     /\ UNCHANGED <<pageVars, isRunning, crawledPosts, observer, scrollListener,
                    scrollInterval, scrollTimeout, noNewContentCount, currentVideoUrl, url,
                    store, dbQueue, liveObservers, liveListeners, liveIntervals, timers,
                    starts, clears, addPostCalls, pureVars, bootstrapped>>

NextLive ==
  \/ AnchoredTick
  \/ LiveClockTick
  \/ SettleTimeout
  \/ StuckCheck

\* setInterval keeps calling back while the interval is live, and time passes
SpecLive ==
  /\ InitLive
  /\ [][NextLive]_vars
  /\ WF_vars(AnchoredTick)
  /\ WF_vars(LiveClockTick)

(***************************************************************************)
(* The properties checked.                                                 *)
(***************************************************************************)
CycleOps ==
  {"startCrawling", "resumeStart", "autoScroll", "settleTimeout", "mutationTimeout",
   "scrollTimeout"}

\* the cycle got past the rate-limit guard: it extracted and updated the display
Extracted == {"promise", "saved", "already", "skipped", "null"}

BootstrapPending == \E k \in DOMAIN dbQueue : dbQueue[k].kind = "getPostsByPlatform"

\* C1: during a run at most one addPost is issued per post id, however the
\* timer, mutation and scroll cycles interleave (a rejected write, which must
\* be retried, is not counted)
C1_AtMostOneWritePerId ==
  \A id \in DOMAIN addPostCalls : addPostCalls[id].issued - addPostCalls[id].rejected <= 1

\* C2: a write that fails, or that cannot be issued for want of the gateway,
\* leaves crawledPosts as it was, so the id is not marked and the post stays new
C2_FailedWriteNotMarked ==
  [][ ( \/ lastEvent'.op = "savePost" /\ lastEvent'.what = "failed"
        \/ lastEvent'.what = "saved" /\ ~postsDB )
      => crawledPosts' = crawledPosts ]_vars

\* a cycle saves again an id whose earlier write was rejected
C2_RetriedAfterFailure ==
  /\ lastEvent.what = "saved"
  /\ lastEvent.id \in DOMAIN addPostCalls
  /\ addPostCalls[lastEvent.id].rejected >= 1
  /\ lastEvent.id \notin crawledPosts

\* C3: once every startCrawling / stopCrawling call has returned and
\* isRunning is false, no observer, scroll listener or interval is registered
C3_NothingRegisteredWhenStopped ==
  (~isRunning /\ ~BootstrapPending)
    => (liveObservers = {} /\ liveListeners = {} /\ liveIntervals = {})

\* C4: a settle timeout or a mutation timeout that fires after stopCrawling
\* returned runs no cycle that extracts, displays or writes
C4_NoCycleAfterStop ==
  (lastEvent.op \in {"settleTimeout", "mutationTimeout"} /\ lastEvent.what \in Extracted)
    => isRunning

C6_StoredPostNotRewritten ==
  (bootstrapped /\ postsDB /\ lastEvent.what = "saved")
    => ~\E r \in store : r.platform = platform /\ r.post = lastEvent.anchor

\* C7: no stored record has both an empty text and an empty author name
C7_NoEmptyRecordStored ==
  \A r \in store : ~(r.text = <<>> /\ r.author = <<>>)

\* C8: a cycle that extracts an anchor with empty text and a non-empty
\* author, whose id is not in crawledPosts, persists it
C8_MediaOnlyPostPersisted ==
  ( /\ lastEvent.op \in CycleOps
    /\ lastEvent.what \in {"saved", "skipped"}
    /\ Posts[lastEvent.anchor].text = <<>>
    /\ Posts[lastEvent.anchor].author # <<>> )
    => lastEvent.what = "saved"

\* C9: the id functions return the same id for the same fields on every call
C9_SameIdOnEveryCall ==
  \A i, j \in DOMAIN idCalls : idCalls[i] = idCalls[j]

\* C10: when a candidate with visibilityRatio >= 0.3 overlaps the viewport,
\* the element getTopPostInViewport returns is not one below 0.3
C10_AnchorMeetsThreshold ==
  ( /\ topPost >= 1
    /\ \E k \in DOMAIN cands : InViewport(cands[k]) /\ 10 * visibleHeight(cands[k]) >= 3 * cands[k].height
                                /\ cands[k].height > 0 )
    => /\ cands[topPost].height > 0
       /\ 10 * visibleHeight(cands[topPost]) >= 3 * cands[topPost].height

\* an anchor was returned although a candidate below 0.3 overlaps the viewport
C10_AnchorChosenOverFaintCandidate ==
  /\ topPost >= 1
  /\ \E k \in DOMAIN cands :
       /\ InViewport(cands[k])
       /\ cands[k].height > 0
       /\ 10 * visibleHeight(cands[k]) < 3 * cands[k].height

\* the candidates that overlap the viewport with visibilityRatio >= 0.3
Qualifying == {k \in DOMAIN cands : InViewport(cands[k]) /\ MeetsThreshold(cands[k])}

\* score of candidate j >= score of candidate k, for non-empty containers
ScoreAtLeast(j, k) ==
  ScoreNum(cands[j]) * cands[k].height >= ScoreNum(cands[k]) * cands[j].height

\* C11: when a candidate qualifies, getTopPostInViewport returns the first
\* qualifying candidate in document order that attains the maximum score; it
\* returns null only when none qualifies
C11_FirstMaxScoreReturned ==
  topPost # -1 =>
    IF Qualifying = {} THEN topPost = 0
    ELSE /\ topPost \in Qualifying
         /\ \A k \in Qualifying :
              /\ ScoreAtLeast(topPost, k)
              /\ k < topPost => ~ScoreAtLeast(k, topPost)

\* C13: while isRunning stays true no operation removes an id from
\* crawledPosts
C13_SeenIdsOnlyGrow ==
  [][(isRunning /\ isRunning') => crawledPosts \subseteq crawledPosts']_vars

\* C14: a savePost whose write resolves while isRunning is false discards the
\* result: it adds no id to crawledPosts and changes no other field
C14_SaveDiscardedAfterStop ==
  [][(~isRunning /\ lastEvent'.op = "savePost") => UNCHANGED fieldVars]_vars

\* C15: only stopCrawling takes isRunning from true to false: every other
\* step, a failed write, a null extraction and a cycle without an anchor
\* included, leaves isRunning true and the scroll interval registered
C15_OnlyStopEndsRun ==
  [][ lastEvent'.op # "stopCrawling"
        => /\ isRunning => isRunning'
           /\ (isRunning /\ scrollInterval \in liveIntervals)
                => (liveIntervals \subseteq liveIntervals' /\ scrollInterval' \in liveIntervals') ]_vars

\* a write has failed and the crawler is running with its interval registered
C15_RunningAfterFailedWrite ==
  /\ lastEvent.op = "savePost"
  /\ lastEvent.what = "failed"
  /\ isRunning
  /\ scrollInterval \in liveIntervals

\* C16: an addPost whose id is already stored is not an error but an update:
\* the ConstraintError leads to a put, rejects nothing and marks nothing; the
\* put leaves exactly one record under the id, the one supplied; and the store
\* never holds more records than distinct ids were written
C16_ConflictIsUpdate ==
  [][ /\ (lastEvent'.op = "addPost" /\ lastEvent'.what = "constraintError")
           => /\ dbQueue'[Len(dbQueue')] = [Head(dbQueue) EXCEPT !.kind = "put"]
              /\ UNCHANGED <<store, crawledPosts, addPostCalls>>
      /\ (lastEvent'.op = "savePost" /\ lastEvent'.what = "updated")
           => {r \in store' : r.id = Head(dbQueue).rec.id} = {Head(dbQueue).rec}
      /\ Cardinality(store') <= Cardinality(DOMAIN addPostCalls') ]_vars

\* an update has replaced the record of an id that was written twice
C16_RecordUpdated ==
  /\ lastEvent.op = "savePost"
  /\ lastEvent.what = "updated"
  /\ addPostCalls[lastEvent.id].issued >= 2
  /\ \E r \in store : r.id = lastEvent.id /\ r.crawledAt > 0

\* C12: every scroll target autoScroll passes to window.scrollTo in its
\* no-new-post branch is strictly greater than the current scroll offset
C12_ScrollTargetAhead ==
  \A k \in DOMAIN scrolledTo : scrolledTo[k] > scrollY


\* C17: the data of a CSV export of N records (N >= 0), split by newline, has
\* exactly N+1 lines: the header row and one row per record, whatever the
\* records' string fields hold.
C17_CsvHasOneLinePerRecord ==
  exported.called =>
    /\ ~exported.null
    /\ SplitLength(exported.data, Newline) = Len(exportPosts) + 1

\* C18: on every adapter, a crawl cycle whose anchor's computed id is already
\* in crawledPosts shows the "already recorded" indicator and returns false
C18_SeenAnchorShowsIndicator ==
  [][ ( /\ lastEvent'.op \in CycleOps
        /\ lastEvent'.what \in Extracted
        /\ IdOf(lastEvent'.anchor, clock) \in crawledPosts )
      => lastEvent'.what = "already" ]_vars

\* C19: the preview extraction leaves crawledPosts alone on every adapter, so
\* a cycle of the running loop whose anchor has text and an unseen id gets it
\* from the full extraction and saves it, with crawledPosts as it was
C19_PreviewLeavesSeenIds ==
  [][ ( /\ lastEvent'.op \in CycleOps \ {"startCrawling", "resumeStart"}
        /\ lastEvent'.what \in Extracted \ {"promise"}
        /\ Posts[lastEvent'.anchor].text # <<>>
        /\ IdOf(lastEvent'.anchor, clock) \notin crawledPosts )
      => /\ lastEvent'.what = "saved"
         /\ crawledPosts' = crawledPosts ]_vars

\* C20: a crawl cycle returns true ("new post recorded") only if the write of
\* that post has succeeded: its record is in the store when the cycle returns
C20_RecordedMeansWritten ==
  [][ (lastEvent'.op \in CycleOps /\ lastEvent'.what = "saved")
      => \E r \in store' : r.id = lastEvent'.id ]_vars

C22_AtMostThreePerWindow ==
  \A key \in RatePositions, c \in 0..MaxRateClock :
    Cardinality({k \in DOMAIN passedAt : passedAt[k] = [key |-> key, at |-> c]}) <= RateLimitMax

\* the scroll-advancement attempts since the document height last grew
StagnantAttempts == {k \in DOMAIN stagnantScrolls : stagnantScrolls[k] # "bottom"}

\* C23: on every platform that scrolls, once 5 scroll attempts in a row have
\* seen no growth of the document height and their checks have run, the
\* crawler has jumped to the bottom of the document and the counter is back
\* below its threshold
C23_StuckRecoveryJumps ==
  (Cardinality(StagnantAttempts) >= StuckThreshold /\ timers.stuck = 0)
    => /\ \E k \in DOMAIN stagnantScrolls : stagnantScrolls[k] = "bottom"
       /\ noNewContentCount < StuckThreshold

\* C24: growth events within the settle delay collapse into one cycle: at
\* most one timeout of the MutationObserver callback is pending at any time
C24_OneMutationCyclePending == timers.mutation <= 1

\* C25: while the settle timeout of a programmatic scroll is pending, no
\* crawl cycle of the interval, the scroll listener or the MutationObserver
\* runs processTopPost
C25_NoCycleBeforeSettle ==
  [][ timers.settle > 0
      => lastEvent'.op \notin {"autoScroll", "scrollTimeout", "mutationTimeout"} ]_vars

\* C26: while the crawler is stopped no handler issues a window.scrollTo,
\* a stuck check that was pending when stopCrawling ran included
C26_NoScrollWhileStopped ==
  [][ ~isRunning => lastEvent'.scroll = "none" ]_vars

\* C27: on TikTok no handler issues a window.scrollTo or schedules a settle
\* or stuck timeout, and a tick schedules processTikTokVideo only when the
\* page URL differs from this.currentVideoUrl (the first tick included)
C27_TikTokNeverScrolls ==
  [][ platform = "tiktok"
      => /\ lastEvent'.scroll = "none"
         /\ timers'.settle = 0 /\ timers'.stuck = 0
         /\ timers'.tiktok > timers.tiktok
              => (currentVideoUrl # url /\ currentVideoUrl' = url) ]_vars

\* autoplay has moved to the next video and a tick has scheduled its extraction
C27_NextVideoScheduled ==
  /\ platform = "tiktok"
  /\ feed = {}
  /\ currentVideoUrl = url
  /\ timers.tiktok > 0

\* C28: at every moment at most one interval set by the crawler is live,
\* however startCrawling and stopCrawling interleave with the bootstrap
C28_OneLiveInterval == Cardinality(liveIntervals) <= 1

\* C29: on Twitter, LinkedIn, Facebook and TikTok an id enters crawledPosts
\* only in a step after which the store holds a record with that id: the
\* bootstrap loaded it, a lookup found it, or the write for it succeeded
C29_SeenOnlyWhenStored ==
  [][ platform # "reddit"
      => \A id \in crawledPosts' \ crawledPosts : \E r \in store' : r.id = id ]_vars

\* TikTok's lookup has found the record of an id the bootstrap had not loaded
C29_LookupCachedStoredId ==
  /\ platform = "tiktok"
  /\ lastEvent.op = "extractPostData"
  /\ lastEvent.what = "alreadyCrawled"
  /\ lastEvent.id \in crawledPosts
  /\ \E r \in store : r.id = lastEvent.id

\* C30: while the crawl runs on a scrolling platform, the interval keeps
\* firing, the anchor stays at its offset and no write ever succeeds, some
\* handler eventually issues a window.scrollTo
C30_ScrollEventuallyIssued == <>(lastEvent.scroll # "none")

=============================================================================
